---- MODULE Spec2Model ----
(***************************************************************************)
(* Voice Tone Analyzer: the App controller (recording / upload / analyze   *)
(* state machine), the AudioUploader tab logic, the Gemini analysis client *)
(* and the audio cue player, as a state machine over the React state, the  *)
(* refs, the browser objects the handlers touch (localStorage, media       *)
(* streams and recorders, the shared AudioContext) and the asynchronous    *)
(* callbacks in flight.                                                    *)
(*                                                                         *)
(* JavaScript strings are sequences of pieces.  Where the code inspects    *)
(* characters (API keys, MIME types, remote error messages) a piece is one *)
(* character; elsewhere a piece is a longer literal.  '' is <<>>.          *)
(* User-facing error messages are only stored and compared, so they are    *)
(* TLA+ strings and '' is "".                                              *)
(***************************************************************************)
EXTENDS Integers, Sequences, FiniteSets, TLC

\* ------------------------------------------------------------------ bounds
\* getUserMedia requests issued during one session (stream / recorder ids)
MaxStreams == 2
\* handleAnalyze invocations that can be in flight at once (continuation slots)
MaxAnalyses == 2

StreamIds == 1..MaxStreams
AnalysisIds == 1..MaxAnalyses

\* ----------------------------------------------------------- string helpers
Whitespace == {" ", "\t", "\n"}

RECURSIVE trimStart(_)
trimStart(s) ==
  IF s = <<>> \/ s[1] \notin Whitespace THEN s ELSE trimStart(Tail(s))

RECURSIVE trimEnd(_)
trimEnd(s) ==
  IF s = <<>> \/ s[Len(s)] \notin Whitespace THEN s
  ELSE trimEnd(SubSeq(s, 1, Len(s) - 1))

\* String.prototype.trim
trim(s) == trimEnd(trimStart(s))

\* String.prototype.startsWith
startsWith(s, prefix) ==
  Len(s) >= Len(prefix) /\ SubSeq(s, 1, Len(prefix)) = prefix

\* String.prototype.includes
includes(s, part) ==
  \E i \in 1..(Len(s) - Len(part) + 1) : SubSeq(s, i, i + Len(part) - 1) = part

UpperCaseLetters ==
  <<"A","B","C","D","E","F","G","H","I","J","K","L","M",
    "N","O","P","Q","R","S","T","U","V","W","X","Y","Z">>
LowerCaseLetters ==
  <<"a","b","c","d","e","f","g","h","i","j","k","l","m",
    "n","o","p","q","r","s","t","u","v","w","x","y","z">>

\* String.prototype.toLowerCase
toLowerCase(s) ==
  [i \in 1..Len(s) |->
     IF \E k \in 1..26 : UpperCaseLetters[k] = s[i]
     THEN LowerCaseLetters[CHOOSE k \in 1..26 : UpperCaseLetters[k] = s[i]]
     ELSE s[i]]

\* mimeType.split('/')[1]: the piece between the first and the second '/',
\* the string "undefined" when there is no '/'
RECURSIVE upToSlash(_)
upToSlash(s) ==
  IF s = <<>> \/ s[1] = "/" THEN <<>> ELSE <<s[1]>> \o upToSlash(Tail(s))

RECURSIVE afterSlash(_)
afterSlash(s) ==
  IF s = <<>> THEN <<"undefined">>
  ELSE IF s[1] = "/" THEN upToSlash(Tail(s)) ELSE afterSlash(Tail(s))

\* ------------------------------------------------------- program literals
KEY_PREFIX == <<"A","I","z","a">>
AUDIO_PREFIX == <<"a","u","d","i","o","/">>
DEFAULT_RECORDING_TYPE == <<"a","u","d","i","o","/","w","e","b","m">>

MSG_KEY_REQUIRED == "A valid Gemini API key is required to perform the analysis."
MSG_UNKNOWN == "An unknown error occurred while communicating with the Gemini API."
MSG_INVALID_KEY == "The provided API key is not valid or lacks the necessary permissions. Please check your key and try again."
MSG_QUOTA == "You have exceeded your API quota. Please check your usage and billing information with Google AI Studio."
MSG_BAD_REQUEST == "The request was invalid. This may be due to a problem with the uploaded audio file or its format."
MSG_ANALYSIS_FAILED == "An error occurred during analysis. Please try again later."
MSG_MIC_DENIED == "Microphone access was denied. Please allow microphone access in your browser's settings to use this feature."
MSG_NOT_SUPPORTED == "Audio recording is not supported in this browser."
MSG_KEY_EMPTY == "API key cannot be empty."
MSG_KEY_FORMAT == "Invalid API key format. It should typically start with \"AIza\"."
MSG_MISSING_INPUT == "Please select or record an audio file first."
MSG_MISSING_KEY == "Please enter and save your Gemini API key before analyzing."
MSG_INVALID_TYPE == "Invalid file type. Please upload an audio file."
MSG_UNEXPECTED == "An unexpected error occurred. Please try again."

PAT_KEY_NOT_VALID == <<"a","p","i"," ","k","e","y"," ","n","o","t"," ","v","a","l","i","d">>
PAT_PERMISSION == <<"p","e","r","m","i","s","s","i","o","n"," ","d","e","n","i","e","d">>
PAT_QUOTA == <<"q","u","o","t","a">>
PAT_BAD_REQUEST == <<"4","0","0"," ","b","a","d"," ","r","e","q","u","e","s","t">>

EXAMPLES ==
  << [label |-> "Warm & Friendly",
      resultText |-> <<"A medium-pitched female voice with a warm, friendly, and engaging tone.">>],
     [label |-> "Authoritative & Clear",
      resultText |-> <<"A low-pitched male voice with a confident and authoritative tone.">>],
     [label |-> "Energetic & Upbeat",
      resultText |-> <<"A high-pitched female voice with an energetic and upbeat tone.">>] >>

\* ------------------------------------------------------------------ inputs
\* File | null: files the picker or a drop can deliver
NoFile == [origin |-> "none", name |-> <<>>, type |-> <<>>, bytes |-> <<>>, blob |-> 0]

ClipMp3 ==
  [origin |-> "picker", name |-> <<"clip.mp3">>,
   type |-> <<"a","u","d","i","o","/","m","p","e","g">>, bytes |-> <<"clip">>, blob |-> 0]
NotesTxt ==
  [origin |-> "picker", name |-> <<"notes.txt">>,
   type |-> <<"t","e","x","t","/","p","l","a","i","n">>, bytes |-> <<"notes">>, blob |-> 0]

PickableFiles == {ClipMp3, NotesTxt}

\* the example buttons the user clicks (indices of EXAMPLES)
ClickedExamples == {1, 3}

\* what the user types into the key field
TypedKeys ==
  { <<>>,
    <<" ">>,
    <<"A","I","z","b">>,
    <<"A","I","z","a","K">>,
    <<" ","A","I","z","a","K">> }

\* process.env.API_KEY when the build sets one (<<>> when it does not)
EnvKeys == { <<>>, <<"A","I","z","a","E">> }

\* a key an earlier session saved
EarlierSavedKey == <<"A","I","z","a","S">>

\* MediaRecorder.mimeType values of the platform ('' before the UA picked one)
RecorderMimeTypes == { <<"a","u","d","i","o","/","o","g","g">> }

\* the DOMException names getUserMedia rejects with: permission refused by the
\* user or the UA, no audio input device
GetUserMediaErrors == {"NotAllowedError", "NotFoundError"}

\* response.text values of the remote model
ResponseTexts == { <<" ", "A calm, low-pitched male voice.", "\n">>, <<"\n">> }

\* what a failed generateContent throws: an Error with a message, or a value
\* that is not an Error (a rejection with a plain object carrying a message)
RemoteFailures ==
  { [isError |-> TRUE,
     message |-> <<"A","P","I"," ","k","e","y"," ","n","o","t"," ","v","a","l","i","d">>],
    [isError |-> TRUE,
     message |-> <<"P","e","r","m","i","s","s","i","o","n"," ","d","e","n","i","e","d">>],
    [isError |-> TRUE,
     message |-> <<"Q","u","o","t","a",":"," ","A","P","I"," ","k","e","y"," ","n","o","t"," ","v","a","l","i","d">>],
    [isError |-> TRUE,
     message |-> <<"Q","u","o","t","a"," ","e","x","c","e","e","d","e","d">>],
    [isError |-> TRUE,
     message |-> <<"4","0","0"," ","B","a","d"," ","R","e","q","u","e","s","t">>],
    [isError |-> TRUE,
     message |-> <<"f","e","t","c","h"," ","f","a","i","l","e","d">>],
    [isError |-> FALSE,
     message |-> <<"Q","u","o","t","a"," ","e","x","c","e","e","d","e","d">>] }

\* ------------------------------------------------------------------- state
VARIABLES
  \* App: useState
  audioFile, isLoading, analysisResult, error, apiKey, isKeySaved, apiKeyError,
  isAudioFeedbackEnabled, isRecording, audioURL,
  \* App: useRef
  mediaRecorderRef, audioChunksRef,
  \* AudioUploader: useState
  activeTab,
  \* browser: localStorage, the module-level AudioContext of audioFeedback.ts
  localStorage, audioContext,
  \* getUserMedia requests, their streams and recorders, by id
  streams,
  \* handleAnalyze invocations past their first await, by slot
  analyses,
  \* the cue the last step played ("none" when it played none)
  cue,
  \* history: the operation that asked each stopping recorder to stop
  exitPath,
  \* platform: process.env.API_KEY, navigator.mediaDevices, window.AudioContext
  envApiKey, hasMediaDevices, hasAudioContextApi

vars ==
  << audioFile, isLoading, analysisResult, error, apiKey, isKeySaved, apiKeyError,
     isAudioFeedbackEnabled, isRecording, audioURL, mediaRecorderRef, audioChunksRef,
     activeTab, localStorage, audioContext, streams, analyses, cue, exitPath,
     envApiKey, hasMediaDevices, hasAudioContextApi >>

platformVars == << envApiKey, hasMediaDevices, hasAudioContextApi >>

\* the mutable state as one record, so that a handler is a function from the
\* state it runs in to the state it leaves, and handlers compose as the calls do
St ==
  [ audioFile |-> audioFile, isLoading |-> isLoading,
    analysisResult |-> analysisResult, error |-> error, apiKey |-> apiKey,
    isKeySaved |-> isKeySaved, apiKeyError |-> apiKeyError,
    isAudioFeedbackEnabled |-> isAudioFeedbackEnabled,
    isRecording |-> isRecording, audioURL |-> audioURL,
    mediaRecorderRef |-> mediaRecorderRef, audioChunksRef |-> audioChunksRef,
    activeTab |-> activeTab, localStorage |-> localStorage,
    audioContext |-> audioContext, streams |-> streams, analyses |-> analyses,
    cue |-> "none" ]

IdleStream == [phase |-> "unused", feedback |-> FALSE, mimeType |-> <<>>, released |-> 0]
NoRequest == [data |-> <<>>, mimeType |-> <<>>, apiKey |-> <<>>]
FreeSlot ==
  [stage |-> "free", file |-> NoFile, apiKey |-> <<>>, feedback |-> FALSE,
   request |-> NoRequest]

isEnvKeySet == envApiKey # <<>>

\* localStorage holds the two items of the app; an item that was never set reads
\* null, which every read of the code treats like '' (<<>>)
getItem(store, k) == store[k]
setItem(store, k, v) == [store EXCEPT ![k] = v]

JSON_stringify(b) == IF b THEN <<"true">> ELSE <<"false">>
JSON_parse(s) == s = <<"true">>

\* the useState initializer of isAudioFeedbackEnabled: the stored preference,
\* true when nothing is stored
savedPreference(store) ==
  IF getItem(store, "AUDIO_FEEDBACK_ENABLED") # <<>>
  THEN JSON_parse(getItem(store, "AUDIO_FEEDBACK_ENABLED")) ELSE TRUE

Init ==
  /\ envApiKey \in EnvKeys
  /\ hasMediaDevices \in BOOLEAN
  /\ hasAudioContextApi \in BOOLEAN
  /\ localStorage \in
       [ GEMINI_API_KEY : {<<>>, EarlierSavedKey},
         AUDIO_FEEDBACK_ENABLED : {<<>>, JSON_stringify(TRUE), JSON_stringify(FALSE)} ]
  /\ audioFile = NoFile
  /\ isLoading = FALSE
  /\ analysisResult = <<>>
  /\ error = ""
  \* useEffect on mount: the saved key is loaded unless the build provides one
  /\ apiKey = IF ~isEnvKeySet /\ getItem(localStorage, "GEMINI_API_KEY") # <<>>
              THEN getItem(localStorage, "GEMINI_API_KEY") ELSE <<>>
  /\ isKeySaved = (~isEnvKeySet /\ getItem(localStorage, "GEMINI_API_KEY") # <<>>)
  /\ apiKeyError = ""
  /\ isAudioFeedbackEnabled = savedPreference(localStorage)
  /\ isRecording = FALSE
  /\ audioURL = 0
  /\ mediaRecorderRef = 0
  /\ audioChunksRef = <<>>
  /\ activeTab = "upload"
  /\ audioContext = 0
  /\ streams = [r \in StreamIds |-> IdleStream]
  /\ analyses = [i \in AnalysisIds |-> FreeSlot]
  /\ cue = "none"
  /\ exitPath = [r \in StreamIds |-> "none"]

Commit(t) ==
  /\ audioFile' = t.audioFile
  /\ isLoading' = t.isLoading
  /\ analysisResult' = t.analysisResult
  /\ error' = t.error
  /\ apiKey' = t.apiKey
  /\ isKeySaved' = t.isKeySaved
  /\ apiKeyError' = t.apiKeyError
  /\ isAudioFeedbackEnabled' = t.isAudioFeedbackEnabled
  /\ isRecording' = t.isRecording
  /\ audioURL' = t.audioURL
  /\ mediaRecorderRef' = t.mediaRecorderRef
  /\ audioChunksRef' = t.audioChunksRef
  /\ activeTab' = t.activeTab
  /\ localStorage' = t.localStorage
  /\ audioContext' = t.audioContext
  /\ streams' = t.streams
  /\ analyses' = t.analyses
  /\ cue' = t.cue
  /\ UNCHANGED platformVars

\* the step that takes the app to state t; a recorder that t asks to stop is
\* remembered with the operation `by` that asked
Run(t, by) ==
  /\ Commit(t)
  /\ exitPath' =
       [r \in StreamIds |->
          IF t.streams[r].phase # "stopping" THEN "none"
          ELSE IF streams[r].phase = "stopping" THEN exitPath[r] ELSE by]

\* ------------------------------------------------- audioFeedback.ts
\* The module variable audioContext holds 0 for null and otherwise the number,
\* in order of construction, of the AudioContext it refers to.

\* getAudioContext constructing a context on every call
getAudioContext_NewEachCall(s) ==
  IF hasAudioContextApi THEN [s EXCEPT !.audioContext = @ + 1] ELSE s

\* getAudioContext: the shared context, constructed on first use; the state is
\* left alone when the Web Audio API is missing (the function returns null)
getAudioContext(s) ==
  IF hasAudioContextApi
  THEN (IF s.audioContext = 0 THEN [s EXCEPT !.audioContext = @ + 1] ELSE s)
  ELSE s

playAudioFeedback(s, type) ==
  LET t == getAudioContext(s)
      ctx == IF hasAudioContextApi THEN t.audioContext ELSE 0
  IN IF ctx = 0 THEN t ELSE [t EXCEPT !.cue = type]

\* if (isAudioFeedbackEnabled) playAudioFeedback(type), with the flag the
\* running closure captured
cueIf(enabled, s, type) == IF enabled THEN playAudioFeedback(s, type) ELSE s

\* ------------------------------------------------- App: recording and upload
handleStopRecording(s) ==
  IF s.mediaRecorderRef # 0 /\ s.streams[s.mediaRecorderRef].phase = "recording"
  THEN [s EXCEPT !.streams[s.mediaRecorderRef].phase = "stopping",
                 !.isRecording = FALSE]
  ELSE s

\* handleFileSelect without its setAudioURL(null)
handleFileSelect_KeepsURL(s, file) ==
  LET t == [s EXCEPT !.audioFile = file, !.analysisResult = <<>>, !.error = ""]
  IN IF s.mediaRecorderRef # 0 /\ s.isRecording THEN handleStopRecording(t) ELSE t

handleFileSelect(s, file) ==
  LET t == [s EXCEPT !.audioFile = file, !.analysisResult = <<>>, !.error = "",
                     !.audioURL = 0]
  IN IF s.mediaRecorderRef # 0 /\ s.isRecording THEN handleStopRecording(t) ELSE t

\* the lowest request id not used yet
nextStream(s) ==
  CHOOSE r \in StreamIds :
    /\ s.streams[r].phase = "unused"
    /\ \A q \in StreamIds : q < r => s.streams[q].phase # "unused"

\* handleStartRecording up to its await: the state is cleared and, where the
\* platform has getUserMedia, a permission request is left pending
handleStartRecording(s) ==
  LET t == [s EXCEPT !.error = "", !.analysisResult = <<>>, !.audioFile = NoFile,
                     !.audioURL = 0]
  IN IF hasMediaDevices
     THEN [t EXCEPT !.streams[nextStream(s)] =
                       [IdleStream EXCEPT !.phase = "pending",
                                          !.feedback = s.isAudioFeedbackEnabled]]
     ELSE cueIf(s.isAudioFeedbackEnabled,
                [t EXCEPT !.error = MSG_NOT_SUPPORTED], "error")

\* handleStartRecording after getUserMedia resolved with stream r
getUserMediaResolved(s, r, mimeType) ==
  [s EXCEPT !.mediaRecorderRef = r,
            !.audioChunksRef = <<>>,
            !.streams[r] = [IdleStream EXCEPT !.phase = "recording",
                                              !.mimeType = mimeType],
            !.isRecording = TRUE]

\* handleStartRecording's catch, entered with the DOMException `name` that
\* getUserMedia rejected with; the request ends "denied" when the permission
\* was refused and "failed" otherwise
getUserMediaRejected(s, r, name) ==
  cueIf(s.streams[r].feedback,
        [s EXCEPT !.error = MSG_MIC_DENIED,
                  !.streams[r] =
                     [IdleStream EXCEPT
                        !.phase = IF name = "NotAllowedError" THEN "denied" ELSE "failed"]],
        "error")

\* mediaRecorderRef.current.ondataavailable
ondataavailable(s, r) ==
  [s EXCEPT !.audioChunksRef = Append(s.audioChunksRef, ToString(r))]

\* mediaRecorderRef.current.onstop of the recorder on stream r
onstop(s, r) ==
  LET current == IF s.mediaRecorderRef # 0
                 THEN s.streams[s.mediaRecorderRef].mimeType ELSE <<>>
      mimeType == IF current # <<>> THEN current ELSE DEFAULT_RECORDING_TYPE
      recordedFile ==
        [origin |-> "recorder", name |-> <<"recording.">> \o afterSlash(mimeType),
         type |-> mimeType, bytes |-> s.audioChunksRef, blob |-> r]
  IN [s EXCEPT !.audioURL = r,
               !.audioFile = recordedFile,
               !.streams[r].phase = "stopped",
               !.streams[r].released = @ + 1]

handleClearRecording(s) == [s EXCEPT !.audioURL = 0, !.audioFile = NoFile]

\* ------------------------------------------------- AudioUploader
handleFileChange(s, files) ==
  IF Len(files) > 0 THEN handleFileSelect(s, files[1]) ELSE handleFileSelect(s, NoFile)

handleTabChange(s, tab) ==
  LET a == IF tab = "record" /\ s.audioFile # NoFile
           THEN handleFileSelect(s, NoFile) ELSE s
      b == IF tab = "upload" /\ (s.audioURL # 0 \/ s.isRecording)
           THEN handleClearRecording(handleStopRecording(a)) ELSE a
  IN [b EXCEPT !.activeTab = tab]

\* ------------------------------------------------- App: API key
validateApiKey(s, key) ==
  LET trimmedKey == trim(key) IN
  IF trimmedKey = <<>>
  THEN [valid |-> FALSE, state |-> [s EXCEPT !.apiKeyError = MSG_KEY_EMPTY]]
  ELSE IF ~startsWith(trimmedKey, KEY_PREFIX)
  THEN [valid |-> FALSE, state |-> [s EXCEPT !.apiKeyError = MSG_KEY_FORMAT]]
  ELSE [valid |-> TRUE, state |-> [s EXCEPT !.apiKeyError = ""]]

handleApiKeySave(s) ==
  LET v == validateApiKey(s, s.apiKey) IN
  IF v.valid
  THEN [v.state EXCEPT
          !.localStorage = setItem(s.localStorage, "GEMINI_API_KEY", s.apiKey),
          !.isKeySaved = TRUE,
          !.apiKeyError = ""]
  ELSE v.state

handleApiKeyEdit(s) == [s EXCEPT !.isKeySaved = FALSE, !.apiKeyError = ""]

handleApiKeyChange(s, value) == [s EXCEPT !.apiKey = value, !.apiKeyError = ""]

\* ------------------------------------------------- App: analysis
\* fileUtils.fileToBase64: the file's bytes in base64 and its MIME type
fileToBase64(file) ==
  [base64 |-> <<"base64:">> \o file.bytes, mimeType |-> file.type]

freeSlot(s) ==
  CHOOSE i \in AnalysisIds :
    /\ s.analyses[i].stage = "free"
    /\ \A j \in AnalysisIds : j < i => s.analyses[j].stage # "free"

finalApiKey(s) == IF isEnvKeySet THEN envApiKey ELSE s.apiKey

\* handleAnalyze without its !audioFile return
handleAnalyze_NoSourceCheck(s) ==
  IF finalApiKey(s) = <<>>
  THEN cueIf(s.isAudioFeedbackEnabled, [s EXCEPT !.error = MSG_MISSING_KEY], "error")
  ELSE [s EXCEPT !.isLoading = TRUE, !.analysisResult = <<>>, !.error = "",
                 !.analyses[freeSlot(s)] =
                    [FreeSlot EXCEPT !.stage = "encoding",
                                     !.file = s.audioFile,
                                     !.apiKey = finalApiKey(s),
                                     !.feedback = s.isAudioFeedbackEnabled]]

\* handleAnalyze up to its first await
handleAnalyze(s) ==
  IF s.audioFile = NoFile
  THEN cueIf(s.isAudioFeedbackEnabled, [s EXCEPT !.error = MSG_MISSING_INPUT], "error")
  ELSE IF finalApiKey(s) = <<>>
  THEN cueIf(s.isAudioFeedbackEnabled, [s EXCEPT !.error = MSG_MISSING_KEY], "error")
  ELSE [s EXCEPT !.isLoading = TRUE, !.analysisResult = <<>>, !.error = "",
                 !.analyses[freeSlot(s)] =
                    [FreeSlot EXCEPT !.stage = "encoding",
                                     !.file = s.audioFile,
                                     !.apiKey = finalApiKey(s),
                                     !.feedback = s.isAudioFeedbackEnabled]]

\* handleAnalyze's catch and finally
analysisFailed(s, i, message) ==
  cueIf(s.analyses[i].feedback,
        [s EXCEPT !.error = message, !.isLoading = FALSE, !.analyses[i] = FreeSlot],
        "error")

\* handleAnalyze without its mimeType.startsWith('audio/') check
fileEncoded_NoTypeCheck(s, i) ==
  LET a == s.analyses[i]
      enc == fileToBase64(a.file)
  IN IF a.apiKey = <<>>
     THEN analysisFailed(s, i, MSG_KEY_REQUIRED)
     ELSE [s EXCEPT !.analyses[i].stage = "remote",
                    !.analyses[i].request =
                       [data |-> enc.base64, mimeType |-> enc.mimeType,
                        apiKey |-> a.apiKey]]

\* handleAnalyze after fileToBase64 resolved: the MIME check, then
\* analyzeVoiceTone up to its await of generateContent
fileEncoded(s, i) ==
  LET a == s.analyses[i]
      enc == fileToBase64(a.file)
  IN IF ~startsWith(enc.mimeType, AUDIO_PREFIX)
     THEN analysisFailed(s, i, MSG_INVALID_TYPE)
     ELSE IF a.apiKey = <<>>
     THEN analysisFailed(s, i, MSG_KEY_REQUIRED)
     ELSE [s EXCEPT !.analyses[i].stage = "remote",
                    !.analyses[i].request =
                       [data |-> enc.base64, mimeType |-> enc.mimeType,
                        apiKey |-> a.apiKey]]

\* userFriendlyMessage with the quota test moved in front of the key test
userFriendlyMessage_QuotaFirst(e) ==
  IF ~e.isError THEN MSG_UNKNOWN
  ELSE LET message == toLowerCase(e.message) IN
       IF includes(message, PAT_QUOTA) THEN MSG_QUOTA
       ELSE IF includes(message, PAT_KEY_NOT_VALID) \/ includes(message, PAT_PERMISSION)
       THEN MSG_INVALID_KEY
       ELSE IF includes(message, PAT_BAD_REQUEST) THEN MSG_BAD_REQUEST
       ELSE MSG_ANALYSIS_FAILED

\* analyzeVoiceTone's catch: the sentence shown for a failure of the remote call
userFriendlyMessage(e) ==
  IF ~e.isError THEN MSG_UNKNOWN
  ELSE LET message == toLowerCase(e.message) IN
       IF includes(message, PAT_KEY_NOT_VALID) \/ includes(message, PAT_PERMISSION)
       THEN MSG_INVALID_KEY
       ELSE IF includes(message, PAT_QUOTA) THEN MSG_QUOTA
       ELSE IF includes(message, PAT_BAD_REQUEST) THEN MSG_BAD_REQUEST
       ELSE MSG_ANALYSIS_FAILED

\* generateContent resolved: analyzeVoiceTone returns response.text.trim()
generateContentResolved(s, i, text) ==
  cueIf(s.analyses[i].feedback,
        [s EXCEPT !.analysisResult = trim(text), !.isLoading = FALSE,
                  !.analyses[i] = FreeSlot],
        "success")

\* generateContentRejected made to retry: the invocation goes back to its encoding
generateContentRejected_Retries(s, i, e) ==
  [s EXCEPT !.analyses[i].stage = "encoding", !.analyses[i].request = NoRequest]

\* generateContent rejected
generateContentRejected(s, i, e) == analysisFailed(s, i, userFriendlyMessage(e))

\* handleExampleClick without its handleFileSelect(null)
handleExampleClick_KeepsFile(s, resultText) ==
  cueIf(s.isAudioFeedbackEnabled, [s EXCEPT !.analysisResult = resultText], "success")

handleExampleClick(s, resultText) ==
  cueIf(s.isAudioFeedbackEnabled,
        [handleFileSelect(s, NoFile) EXCEPT !.analysisResult = resultText],
        "success")

\* toggleAudioFeedback without its localStorage.setItem
toggleAudioFeedback_NoWrite(s) ==
  [s EXCEPT !.isAudioFeedbackEnabled = ~s.isAudioFeedbackEnabled]

toggleAudioFeedback(s) ==
  LET newState == ~s.isAudioFeedbackEnabled IN
  [s EXCEPT !.isAudioFeedbackEnabled = newState,
            !.localStorage =
               setItem(s.localStorage, "AUDIO_FEEDBACK_ENABLED", JSON_stringify(newState))]

\* canAnalyze without !isLoading
canAnalyze_IgnoresLoading == audioFile # NoFile /\ (isEnvKeySet \/ isKeySaved)

\* canAnalyze without (isEnvKeySet || isKeySaved)
canAnalyze_IgnoresKey == audioFile # NoFile /\ ~isLoading

canAnalyze == audioFile # NoFile /\ ~isLoading /\ (isEnvKeySet \/ isKeySaved)

\* ------------------------------------------------- the rendered controls
\* A control acts only while it is rendered and enabled; the guards are the
\* JSX conditions of App and AudioUploader.

\* upload tab: the file input's onChange or a drop, with a file
SelectFile(f) == Run(handleFileChange(St, <<f>>), "file")

PickFile ==
  /\ activeTab = "upload" /\ ~isLoading
  /\ \E f \in PickableFiles : SelectFile(f)

\* upload tab: a change or a drop that carries no file
PickNothing ==
  /\ activeTab = "upload" /\ ~isLoading
  /\ Run(handleFileChange(St, <<>>), "remove")

\* upload tab: "Choose a different file"
ChooseDifferentFile ==
  /\ activeTab = "upload" /\ audioFile # NoFile
  /\ Run(handleFileChange(St, <<>>), "remove")

SwitchTab(tab) == Run(handleTabChange(St, tab), "tab")

ClickTab == \E tab \in {"upload", "record"} : SwitchTab(tab)

\* record tab: "Start Recording"
ClickStartRecording ==
  /\ activeTab = "record" /\ ~isRecording /\ audioURL = 0 /\ ~isLoading
  /\ hasMediaDevices => \E r \in StreamIds : streams[r].phase = "unused"
  /\ Run(handleStartRecording(St), "start")

GetUserMediaResolves ==
  \E r \in StreamIds, mimeType \in RecorderMimeTypes :
    /\ streams[r].phase = "pending"
    /\ Run(getUserMediaResolved(St, r, mimeType), "start")

Rejected(r, name) ==
  /\ streams[r].phase = "pending"
  /\ Run(getUserMediaRejected(St, r, name), "start")

GetUserMediaRejects ==
  \E r \in StreamIds, name \in GetUserMediaErrors : Rejected(r, name)

\* record tab: "Stop"
ClickStop ==
  /\ activeTab = "record" /\ isRecording
  /\ Run(handleStopRecording(St), "stop")

\* record tab: "Re-record"
ClickReRecord ==
  /\ activeTab = "record" /\ ~isRecording /\ audioURL # 0
  /\ Run(handleClearRecording(St), "clear")

\* the task a stop queues: dataavailable, then stop
StopCallback(r) ==
  /\ streams[r].phase = "stopping"
  /\ Run(onstop(ondataavailable(St, r), r), "none")

RecorderStops == \E r \in StreamIds : StopCallback(r)

\* the tracks of a recording stream end on their own (device unplugged,
\* permission revoked): the recorder goes inactive and queues the same task
TrackEnds ==
  \E r \in StreamIds :
    /\ streams[r].phase = "recording"
    /\ Run([St EXCEPT !.streams[r].phase = "stopping"], "ended")

ClickAnalyze ==
  /\ canAnalyze
  /\ \E i \in AnalysisIds : analyses[i].stage = "free"
  /\ Run(handleAnalyze(St), "analyze")

Encoded(i) ==
  /\ analyses[i].stage = "encoding"
  /\ Run(fileEncoded(St, i), "none")

FileEncoded == \E i \in AnalysisIds : Encoded(i)

RemoteResolves ==
  \E i \in AnalysisIds, text \in ResponseTexts :
    /\ analyses[i].stage = "remote"
    /\ Run(generateContentResolved(St, i, text), "none")

Failed(i, e) ==
  /\ analyses[i].stage = "remote"
  /\ Run(generateContentRejected(St, i, e), "none")

RemoteRejects == \E i \in AnalysisIds, e \in RemoteFailures : Failed(i, e)

Example(k) ==
  /\ ~isLoading
  /\ Run(handleExampleClick(St, EXAMPLES[k].resultText), "example")

ClickExample == \E k \in ClickedExamples : Example(k)

ClickToggleAudioFeedback == Run(toggleAudioFeedback(St), "none")

TypeApiKey ==
  /\ ~isEnvKeySet /\ ~isKeySaved
  /\ \E value \in TypedKeys : value # apiKey /\ Run(handleApiKeyChange(St, value), "none")

ClickSaveKey ==
  /\ ~isEnvKeySet /\ ~isKeySaved /\ trim(apiKey) # <<>>
  /\ Run(handleApiKeySave(St), "none")

ClickEditKey ==
  /\ ~isEnvKeySet /\ isKeySaved
  /\ Run(handleApiKeyEdit(St), "none")

\* ------------------------------------------------- direct calls
\* The operations of the state machine called in any state, as a caller that
\* does not go through the rendered controls (a unit test of the handlers) can.
CallSelectFile ==
  \E f \in PickableFiles \cup {NoFile} :
    Run(handleFileSelect(St, f), IF f = NoFile THEN "remove" ELSE "file")

CallAnalyze ==
  /\ \E i \in AnalysisIds : analyses[i].stage = "free"
  /\ Run(handleAnalyze(St), "analyze")

\* ------------------------------------------------- specifications
\* The audio source and analysis machine behind its rendered controls.  The key
\* panel is left out: it shares with the rest only apiKey and isKeySaved, which
\* handleAnalyze and canAnalyze read, and every start-up value of these is in Init.
Next ==
  \/ PickFile
  \/ PickNothing
  \/ ChooseDifferentFile
  \/ ClickTab
  \/ ClickStartRecording
  \/ GetUserMediaResolves
  \/ GetUserMediaRejects
  \/ ClickStop
  \/ ClickReRecord
  \/ RecorderStops
  \/ TrackEnds
  \/ ClickAnalyze
  \/ FileEncoded
  \/ RemoteResolves
  \/ RemoteRejects
  \/ ClickExample
  \/ ClickToggleAudioFeedback

Spec == Init /\ [][Next]_vars

\* The upload tab and the microphone alone: the part of Next that can change
\* audioFile, audioURL, isRecording and the recorders.
NextSource ==
  \/ PickFile
  \/ PickNothing
  \/ ChooseDifferentFile
  \/ ClickTab
  \/ ClickStartRecording
  \/ GetUserMediaResolves
  \/ GetUserMediaRejects
  \/ ClickStop
  \/ ClickReRecord
  \/ RecorderStops
  \/ TrackEnds

SpecSource == Init /\ [][NextSource]_vars

\* The key panel, the upload tab and the analysis, without the microphone.
NextAnalysis ==
  \/ TypeApiKey
  \/ ClickSaveKey
  \/ ClickEditKey
  \/ PickFile
  \/ PickNothing
  \/ ChooseDifferentFile
  \/ ClickAnalyze
  \/ FileEncoded
  \/ RemoteResolves
  \/ RemoteRejects
  \/ ClickExample
  \/ ClickToggleAudioFeedback

SpecAnalysis == Init /\ [][NextAnalysis]_vars

\* SpecAnalysis where the promises handleAnalyze awaits settle: a pending
\* fileToBase64 resolves and a pending generateContent resolves or rejects.
SpecAnalysisSettles ==
  /\ SpecAnalysis
  /\ WF_vars(FileEncoded)
  /\ WF_vars(RemoteResolves \/ RemoteRejects)

\* selectFile and analyze called directly, in any order and in any state.
NextHandlers ==
  \/ CallSelectFile
  \/ CallAnalyze
  \/ FileEncoded
  \/ RemoteResolves
  \/ RemoteRejects

SpecHandlers == Init /\ [][NextHandlers]_vars

\* The operations that play a cue without an analysis: the examples and a
\* recording that cannot start, with the preference toggle.
NextCues ==
  \/ ClickTab
  \/ ClickStartRecording
  \/ GetUserMediaRejects
  \/ ClickExample
  \/ ClickToggleAudioFeedback

SpecCues == Init /\ [][NextCues]_vars

\* ------------------------------------------------- properties
savedKey == getItem(localStorage, "GEMINI_API_KEY")

\* C1: whenever the playback URL is set, audioFile is the file built from the
\* very recording the URL plays (same blob), never a file chosen with the
\* picker; so an uploaded file and a completed recording are never both held.
C1_MutualExclusion ==
  /\ audioURL # 0 => (audioFile.origin = "recorder" /\ audioFile.blob = audioURL)
  /\ audioFile.origin = "picker" => audioURL = 0

\* a completed recording is held while the upload tab, where files are
\* selected, is the active tab
C1_Witness ==
  /\ audioURL # 0 /\ audioFile.origin = "recorder"
  /\ activeTab = "upload"
  /\ \E r \in StreamIds : streams[r].phase = "stopped" /\ r # audioURL

\* C2: switching to the record tab while a file is selected leaves audioFile
\* null; switching to the upload tab while a recording exists, completed or
\* active, clears it: right after the switch for a completed one, and once the
\* stop callback of the recorder the switch stopped has run for an active one,
\* audioFile is null, audioURL is null and isRecording is false.
C2_TabSwitchClears ==
  [][ /\ (SwitchTab("record") /\ audioFile # NoFile) => audioFile' = NoFile
      /\ (SwitchTab("upload") /\ audioURL # 0 /\ ~isRecording)
            => (audioFile' = NoFile /\ audioURL' = 0 /\ ~isRecording')
      /\ \A r \in StreamIds :
           (/\ StopCallback(r) /\ exitPath[r] = "tab"
            /\ activeTab = "upload" /\ audioFile = NoFile /\ audioURL = 0 /\ ~isRecording)
            => (audioFile' = NoFile /\ audioURL' = 0 /\ ~isRecording') ]_vars

\* C3: selecting a file f clears the result and the error and makes f the
\* source; when the stop callback of a recorder that the selection stopped runs
\* while f is still the source, the source stays f: audioFile = f, audioURL
\* null, isRecording false.
C3_SelectFileWins ==
  [][ /\ \A f \in PickableFiles :
           (PickFile /\ SelectFile(f))
            => (/\ audioFile' = f /\ audioURL' = 0
                /\ analysisResult' = <<>> /\ error' = "")
      /\ \A r \in StreamIds :
           (/\ StopCallback(r) /\ exitPath[r] = "file"
            /\ audioFile.origin = "picker" /\ audioURL = 0)
            => (audioFile' = audioFile /\ audioURL' = 0 /\ ~isRecording') ]_vars

\* C4: no stream is released twice, and once the app is not recording and no
\* stop callback is outstanding, every stream getUserMedia handed out has been
\* released.
C4_MicReleasedExactlyOnce ==
  /\ \A r \in StreamIds : streams[r].released <= 1
  /\ (~isRecording /\ \A r \in StreamIds : streams[r].phase # "stopping")
       => \A r \in StreamIds :
            streams[r].phase \in {"recording", "stopped"} => streams[r].released = 1

\* C5: analysisResult and error are never both non-empty.
C5_ResultXorError == ~(analysisResult # <<>> /\ error # "")

\* C6: at most one analysis is in flight, so at most one Analysis Client call is
\* outstanding, and isLoading is true while one is.
C6_OneAnalysisInFlight ==
  /\ Cardinality({i \in AnalysisIds : analyses[i].stage # "free"}) <= 1
  /\ \A i \in AnalysisIds : analyses[i].stage # "free" => isLoading

\* a remote call is outstanding while a source and a key are there: only
\* isLoading keeps the Analyze button disabled
C6_Witness ==
  /\ isLoading /\ audioFile # NoFile /\ (isEnvKeySet \/ isKeySaved)
  /\ \E i \in AnalysisIds : analyses[i].stage = "remote"

\* C7: handleAnalyze called with no audio source sets the MissingInput error,
\* starts no analysis (no encoding, no client call) and leaves isLoading and
\* the result as they were.
C7_AnalyzeWithoutSource ==
  [][ (CallAnalyze /\ audioFile = NoFile)
        => (/\ error' = MSG_MISSING_INPUT
            /\ analyses' = analyses
            /\ isLoading' = isLoading
            /\ analysisResult' = analysisResult) ]_vars

\* the MissingInput error is shown, nothing is in flight and isLoading is false
C7_Witness ==
  /\ error = MSG_MISSING_INPUT /\ audioFile = NoFile /\ ~isLoading
  /\ \A i \in AnalysisIds : analyses[i].stage = "free"

\* C8: when the encoding of a source whose mimeType does not start with
\* 'audio/' completes, the analysis ends there: the invalid-type error is set,
\* isLoading is false again, and no request is issued; no outstanding request
\* ever carries a mimeType that does not start with 'audio/'.
C8_NonAudioRejectedBeforeCall ==
  [][ /\ \A i \in AnalysisIds :
           (Encoded(i) /\ ~startsWith(fileToBase64(analyses[i].file).mimeType, AUDIO_PREFIX))
            => (/\ analyses'[i].stage = "free"
                /\ error' = MSG_INVALID_TYPE
                /\ ~isLoading')
      /\ \A i \in AnalysisIds :
           analyses'[i].stage = "remote"
            => startsWith(analyses'[i].request.mimeType, AUDIO_PREFIX) ]_vars

\* the invalid-type error is shown for the non-audio file still selected, with
\* nothing in flight
C8_Witness ==
  /\ error = MSG_INVALID_TYPE /\ ~isLoading /\ audioFile = NotesTxt
  /\ \A i \in AnalysisIds : analyses[i].stage = "free"

C10_OnlyPrefixedKeysPersisted ==
  [][ /\ savedKey' # savedKey => startsWith(savedKey', KEY_PREFIX)
      /\ (ClickSaveKey /\ ~startsWith(apiKey, KEY_PREFIX))
           => (/\ localStorage' = localStorage
               /\ isKeySaved' = isKeySaved
               /\ apiKeyError' = MSG_KEY_FORMAT) ]_vars

\* the cue an invocation plays, with the preference flag its closure captured
cueOf(feedback, type) == IF feedback /\ hasAudioContextApi THEN type ELSE "none"

\* C11: an analyze invocation takes the file held at the click, calls the
\* client once, when the encoding completes, with that file's base64 content
\* and mimeType, and ends with the outcome of that call: on success the result
\* is the returned (trimmed) text and the success cue is played in that one
\* step (when the invocation has audio feedback on), on failure the error is
\* set and the invocation ends; an outstanding call is never issued again.
C11_OneCallPerAnalyze ==
  [][ \A i \in AnalysisIds :
        /\ (ClickAnalyze /\ analyses[i].stage = "free" /\ analyses'[i].stage # "free")
             => (analyses'[i].stage = "encoding" /\ analyses'[i].file = audioFile)
        /\ (analyses[i].stage # "remote" /\ analyses'[i].stage = "remote")
             => (/\ analyses[i].stage = "encoding"
                 /\ analyses'[i].request.data = <<"base64:">> \o analyses[i].file.bytes
                 /\ analyses'[i].request.mimeType = analyses[i].file.type)
        /\ (analyses[i].stage = "remote" /\ analyses'[i] # analyses[i])
             => analyses'[i] = FreeSlot
        /\ \A text \in ResponseTexts :
             (analyses[i].stage = "remote" /\ Run(generateContentResolved(St, i, text), "none"))
              => (/\ analysisResult' = trim(text)
                  /\ error' = error
                  /\ ~isLoading'
                  /\ cue' = cueOf(analyses[i].feedback, "success"))
        /\ \A e \in RemoteFailures :
             Failed(i, e)
              => (/\ error' \in {MSG_UNKNOWN, MSG_INVALID_KEY, MSG_QUOTA,
                                MSG_BAD_REQUEST, MSG_ANALYSIS_FAILED}
                  /\ analysisResult' = analysisResult
                  /\ ~isLoading'
                  /\ \A j \in AnalysisIds : analyses'[j].stage = "free") ]_vars

\* clip.mp3 analysed with a saved key: the result holds the returned text and
\* the success cue has just been played
C11_Witness ==
  /\ audioFile = ClipMp3 /\ ~isEnvKeySet /\ isKeySaved
  /\ analysisResult = <<"A calm, low-pitched male voice.">>
  /\ cue = "success" /\ error = "" /\ ~isLoading
  /\ \A i \in AnalysisIds : analyses[i].stage = "free"

\* C12: when the getUserMedia request of startRecording is rejected, the error
\* is the microphone-denied message, the error cue is played when the request
\* has audio feedback on, and no recording session is created (isRecording, the
\* recorder ref and the chunk buffer are untouched, no stream is recording for
\* the request); and the microphone-denied message is set only by a rejection
\* whose reason is the refused permission.
C12_DenialMessageOnlyOnDenial ==
  [][ /\ \A r \in StreamIds, name \in GetUserMediaErrors :
           Rejected(r, name)
            => (/\ error' = MSG_MIC_DENIED
                /\ cue' = cueOf(streams[r].feedback, "error")
                /\ isRecording' = isRecording
                /\ mediaRecorderRef' = mediaRecorderRef
                /\ audioChunksRef' = audioChunksRef
                /\ streams'[r].phase \notin {"recording", "stopping", "stopped"}
                /\ streams'[r].released = 0)
      /\ (error' = MSG_MIC_DENIED /\ error # MSG_MIC_DENIED)
           => \E r \in StreamIds : streams[r].phase = "pending" /\ streams'[r].phase = "denied"
    ]_vars

\* C13: a click on example k makes the result that example's literal text,
\* clears the error and the selected file, starts no analysis (no encoding, no
\* client call, isLoading stays false), and plays the success cue exactly when
\* the audio-feedback preference is on (and the cue player has a synthesis API).
C13_ExampleClick ==
  [][ \A k \in ClickedExamples :
        Example(k)
         => (/\ analysisResult' = EXAMPLES[k].resultText
             /\ error' = ""
             /\ audioFile' = NoFile
             /\ analyses' = analyses
             /\ ~isLoading'
             /\ cue' = cueOf(isAudioFeedbackEnabled, "success")) ]_vars

\* the third example's text is shown, the cue has just been played, and the
\* file that was selected before is gone while no analysis ever ran
C13_Witness ==
  /\ analysisResult = EXAMPLES[3].resultText
  /\ cue = "success" /\ isAudioFeedbackEnabled
  /\ audioFile = NoFile /\ error = "" /\ ~isLoading
  /\ \A i \in AnalysisIds : analyses[i].stage = "free"

\* C14 as stated: when the remote call fails, the error shown is fixed by the
\* lower-cased message of the failure alone: the invalid-key sentence if it
\* contains 'api key not valid' or 'permission denied', else the quota sentence
\* if it contains 'quota', else the bad-request sentence if it contains
\* '400 bad request', else the one sentence of the Unknown kind.
C14_ClassifiedByMessageAlone ==
  [][ \A i \in AnalysisIds, e \in RemoteFailures :
        Failed(i, e)
         => LET m == toLowerCase(e.message) IN
            error' = IF includes(m, <<"a","p","i"," ","k","e","y"," ","n","o","t"," ","v","a","l","i","d">>)
                        \/ includes(m, <<"p","e","r","m","i","s","s","i","o","n"," ","d","e","n","i","e","d">>)
                     THEN MSG_INVALID_KEY
                     ELSE IF includes(m, <<"q","u","o","t","a">>) THEN MSG_QUOTA
                     ELSE IF includes(m, <<"4","0","0"," ","b","a","d"," ","r","e","q","u","e","s","t">>)
                     THEN MSG_BAD_REQUEST
                     ELSE MSG_ANALYSIS_FAILED ]_vars

\* C14 as amended: a failure that is not an Error object is shown as the
\* unknown-error sentence whatever it carries; a failure that is an Error is
\* classified by its lower-cased message as stated, the last kind with the
\* generic analysis-failed sentence; the error shown is always one of these
\* five fixed sentences.
C14_ClassifiedErrors ==
  [][ \A i \in AnalysisIds, e \in RemoteFailures :
        Failed(i, e)
         => LET m == toLowerCase(e.message) IN
            /\ error' \in {MSG_UNKNOWN, MSG_INVALID_KEY, MSG_QUOTA,
                           MSG_BAD_REQUEST, MSG_ANALYSIS_FAILED}
            /\ error' = IF ~e.isError THEN MSG_UNKNOWN
                        ELSE IF includes(m, <<"a","p","i"," ","k","e","y"," ","n","o","t"," ","v","a","l","i","d">>)
                                \/ includes(m, <<"p","e","r","m","i","s","s","i","o","n"," ","d","e","n","i","e","d">>)
                        THEN MSG_INVALID_KEY
                        ELSE IF includes(m, <<"q","u","o","t","a">>) THEN MSG_QUOTA
                        ELSE IF includes(m, <<"4","0","0"," ","b","a","d"," ","r","e","q","u","e","s","t">>)
                        THEN MSG_BAD_REQUEST
                        ELSE MSG_ANALYSIS_FAILED ]_vars

\* a failed remote call has left the unknown-error sentence
C14_Witness ==
  /\ error = MSG_UNKNOWN /\ ~isLoading /\ audioFile = ClipMp3
  /\ \A i \in AnalysisIds : analyses[i].stage = "free"

\* C15: a cue is played only while the audio-feedback preference is on: in
\* every state left by a step that played a cue, isAudioFeedbackEnabled is true.
C15_CueOnlyWhileEnabled == cue # "none" => isAudioFeedbackEnabled

\* C16: selectFile(null) while no uploaded file is selected changes nothing:
\* the result, the error, a completed recording (audioFile, audioURL) and a
\* recording in progress (isRecording, the recorder and its stream) are as
\* before.
C16_SelectNullIsNoOp ==
  [][ (PickNothing /\ audioFile.origin # "picker")
        => UNCHANGED << audioFile, audioURL, analysisResult, error, isRecording,
                        mediaRecorderRef, audioChunksRef, streams, isLoading >> ]_vars

\* C17: while an error message is live the machine is neither analyzing nor
\* recording, and nothing is in flight that would repeat the failed operation:
\* error # '' implies isLoading and isRecording are false.
C17_ErrorMeansIdle == error # "" => (~isLoading /\ ~isRecording)

\* C18: at most one AudioContext is ever constructed and, once there is one,
\* every later play uses it; a cue is only played on that context; without the
\* Web Audio API a play constructs nothing and plays nothing.
C18_OneAudioContext ==
  [][ /\ audioContext' <= 1
      /\ audioContext # 0 => audioContext' = audioContext
      /\ cue' # "none" => audioContext' = 1
      /\ ~hasAudioContextApi => (audioContext' = 0 /\ cue' = "none") ]_vars

\* two cues were played in a session that never switched the preference off,
\* an example's success cue and then the error cue of a refused microphone, and
\* the context is still the first one
C18_Witness ==
  /\ audioContext = 1 /\ cue = "error"
  /\ analysisResult # <<>> /\ error = MSG_MIC_DENIED
  /\ isAudioFeedbackEnabled /\ getItem(localStorage, "AUDIO_FEEDBACK_ENABLED") = <<>>

\* C19: no audio source is held while capturing: isRecording implies that
\* audioFile and audioURL are both null.
C19_NoSourceWhileRecording == isRecording => (audioFile = NoFile /\ audioURL = 0)

\* C20: when the stop callback of a recorder that stopRecording stopped runs,
\* the recording is built from exactly the chunks of that recorder, in order,
\* with that recorder's mimeType, and the app is then in Recorded: audioFile is
\* that recording, audioURL is its URL and isRecording is false; and a
\* stopRecording while the current recorder is not recording changes nothing.
C20_StopFinalizesItsSession ==
  [][ /\ \A r \in StreamIds :
           (StopCallback(r) /\ exitPath[r] = "stop")
            => (/\ audioFile'.origin = "recorder"
                /\ audioFile'.bytes = << ToString(r) >>
                /\ audioFile'.type = streams[r].mimeType
                /\ audioFile'.blob = r /\ audioURL' = r
                /\ ~isRecording')
      /\ (/\ Run(handleStopRecording(St), "stop")
          /\ ~(mediaRecorderRef # 0 /\ streams[mediaRecorderRef].phase = "recording"))
           => UNCHANGED << audioFile, audioURL, isRecording, mediaRecorderRef,
                           audioChunksRef, streams, analysisResult, error >> ]_vars

\* C21: every analysis terminates: isLoading leads to ~isLoading; and the step
\* that ends an analysis leaves exactly one of result and error non-empty, with
\* the success cue for a result and the error cue for an error when the
\* analysis has audio feedback on (and the cue player has a synthesis API).
C21_AnalysisTerminatesWithOneOutcome ==
  /\ isLoading ~> ~isLoading
  /\ [][ \A i \in AnalysisIds :
           (analyses[i].stage # "free" /\ analyses'[i].stage = "free")
            => (/\ ~isLoading'
                /\ (analysisResult' # <<>>) # (error' # "")
                /\ cue' = cueOf(analyses[i].feedback,
                                IF analysisResult' # <<>> THEN "success" ELSE "error")) ]_vars

\* C22: the audio source does not change while an analysis is in flight, and
\* when an analysis ends and leaves its result or its error, audioFile is
\* still the file that was analyzed.
C22_NoStaleOutcome ==
  [][ /\ (isLoading /\ isLoading') => audioFile' = audioFile
      /\ \A i \in AnalysisIds :
           (analyses[i].stage # "free" /\ analyses'[i].stage = "free")
            => audioFile' = analyses[i].file ]_vars

\* C23: isRecording is true exactly when the current recorder is in the
\* 'recording' state.
C23_FlagAgreesWithRecorder ==
  isRecording <=> (mediaRecorderRef # 0 /\ streams[mediaRecorderRef].phase = "recording")

\* C24: in every state a start from the stored preference gives the setting
\* in memory (true when nothing is stored); a toggle negates the setting and
\* stores its JSON text; and a second toggle right after it restores the
\* setting and the stored preference the first one found (the same text when
\* one was stored, the text of the default when none was).
C24_PreferenceRoundTrip ==
  /\ [](savedPreference(localStorage) = isAudioFeedbackEnabled)
  /\ [][ ClickToggleAudioFeedback
           => (/\ isAudioFeedbackEnabled' = ~isAudioFeedbackEnabled
               /\ getItem(localStorage', "AUDIO_FEEDBACK_ENABLED")
                    = JSON_stringify(isAudioFeedbackEnabled')
               /\ LET again == toggleAudioFeedback(St') IN
                  /\ again.isAudioFeedbackEnabled = isAudioFeedbackEnabled
                  /\ savedPreference(again.localStorage) = savedPreference(localStorage)
                  /\ getItem(localStorage, "AUDIO_FEEDBACK_ENABLED") # <<>>
                       => again.localStorage = localStorage) ]_vars

\* the preference is off and stored as 'false' in a session that played a cue
\* before, when it was on: a toggle has written it
C24_Witness ==
  /\ ~isAudioFeedbackEnabled
  /\ getItem(localStorage, "AUDIO_FEEDBACK_ENABLED") = JSON_stringify(FALSE)
  /\ audioContext = 1 /\ cue = "none"

====
